---- MODULE Spec2Model ----
(***************************************************************************)
(* nRF24L01 network transport for Mynewt OIC                               *)
(* (libs/nrf24l01/src/transport.cpp).                                      *)
(*                                                                         *)
(* The file-scope statics are the state; every public function and every   *)
(* OIC callback is an operation a task may call.  Functions that open the  *)
(* device are modelled statement by statement, since Mynewt tasks preempt  *)
(* one another; an assert() that fails halts the whole system.             *)
(***************************************************************************)
EXTENDS Integers, Sequences, FiniteSets, TLC

\* ------------------------------------------------------------------ bounds
NumTasks == 2
MaxTransports == 1
MaxBufLen == 16
MaxSegs == 3

\* ------------------------------------------------------------- value sets
NULL == "NULL"
Tasks == 1..NumTasks
\* Device names a caller may pass; only the first is known to the device list.
DeviceNames == {"nrf24l01_0", "nodev"}
Devices == {"nrf24l01_0"}
\* Caller-owned struct nrf24l01_server objects, with the peer the caller put in.
ServerIds == {"s1", "s2"}
Hosts == {0, 43777, 43778}
Ports == {0, 5683, 5684}
serverHost(s) == IF s = "s1" THEN 43777 ELSE 43778
serverPort(s) == 5683
\* Values oc_transport_register can hand back: a slot index, or -1 (rejected).
RegistryReturns == {-1} \cup (0..(MaxTransports - 1))
\* Conversion to uint8_t.
U8(x) == x % 256
\* Segment lengths of an mbuf chain (first segment: CoAP header).
HeaderLen == 4
SegLens == {1, 2, 4, 20}

VARIABLES
    network_device,   \* line 17
    server,           \* line 18
    socket,           \* line 19
    transport_id,     \* line 20
    srv,              \* the caller's server objects: endpoint type/flags, handle
    devOwner,         \* the driver: task holding the device open, 0 if none
    pc,               \* where each task stands
    frame,            \* each task's current call: arguments, locals, counters
    aborted,          \* 0, or the line of the assert that halted the system
    firstReg,         \* what the first successful register stored (history)
    fnChain,          \* input of the frame transmit path, checked on its own
    fnRc              \* its result

vars == <<network_device, server, socket, transport_id, srv, devOwner, pc,
          frame, aborted, firstReg, fnChain, fnRc>>

globals == <<network_device, server, socket, transport_id>>
fnVars == <<fnChain, fnRc>>

\* An mbuf chain: whether the user header of the first mbuf has room for the
\* endpoint (line 91), the endpoint stored there, and the segment lengths.
Chain(u, h, p, segs) ==
    [null |-> FALSE, usrhdr |-> u, host |-> h, port |-> p, segs |-> segs]
\* The null pointer passed as a chain.
NullChain == [null |-> TRUE, usrhdr |-> FALSE, host |-> 0, port |-> 0, segs |-> <<>>]

EmptyFrame ==
    [op |-> "none", ndev0 |-> NULL, server0 |-> NULL, m |-> NullChain, dev |-> NULL,
     rc |-> "none", reg_rc |-> <<>>, maxlen |-> 0, ptr |-> <<>>,
     late |-> FALSE, opens |-> 0, closes |-> 0, frees |-> 0, sent |-> 0]

\* A server object the adapter has not written yet (-1: not a value it writes).
UnstampedServer == [oe_type |-> -1, oe_flags |-> -1, handle |-> NULL]

Init ==
    /\ network_device = NULL
    /\ server = NULL
    /\ socket = NULL
    /\ transport_id = U8(-1)
    /\ srv = [s \in ServerIds |-> UnstampedServer]
    /\ devOwner = 0
    /\ pc = [t \in Tasks |-> "idle"]
    /\ frame = [t \in Tasks |-> EmptyFrame]
    /\ aborted = 0
    /\ firstReg = <<>>
    /\ fnChain = NullChain
    /\ fnRc = <<>>

\* ------------------------------------------------------------ helpers
\* assert(cond) failing at `line`: the system halts with task t inside its call.
Abort(t, line) ==
    /\ aborted' = line
    /\ pc' = [pc EXCEPT ![t] = "abort"]

Goto(t, label) ==
    /\ pc' = [pc EXCEPT ![t] = label]
    /\ UNCHANGED aborted

Running(t, label) == aborted = 0 /\ pc[t] = label

\* ------------------------------------------------------- device driver
\* os_dev_open(name, OS_TIMEOUT_NEVER, NULL): NULL when no device has the name,
\* else waits until the device is free and takes it.
os_dev_lookup(name) == IF name \in Devices THEN name ELSE NULL
os_dev_free == devOwner = 0
os_dev_close(t) == devOwner' = IF devOwner = t THEN 0 ELSE devOwner

\* ------------------------------------------- nrf24l01_register_transport
\* lines 35-38: entry and the two argument asserts.
RegCall(t, nd, s) ==
    /\ Running(t, "idle")
    /\ frame' = [frame EXCEPT ![t] =
            [EmptyFrame EXCEPT !.op = "register", !.ndev0 = nd, !.server0 = s,
                               !.late = (firstReg # <<>>)]]
    /\ IF nd = NULL \/ s = NULL THEN Abort(t, 38) ELSE Goto(t, "reg41")
    /\ UNCHANGED <<globals, srv, devOwner, firstReg, fnVars>>

\* The open of line 41 taken without waiting for the device to be free.
RegOpen_NoWait(t) ==
    /\ Running(t, "reg41")
    /\ IF os_dev_lookup(frame[t].ndev0) = NULL
       THEN /\ Abort(t, 42)
            /\ UNCHANGED <<devOwner, frame>>
       ELSE /\ devOwner' = t
            /\ frame' = [frame EXCEPT ![t].dev = frame[t].ndev0,
                                      ![t].opens = @ + 1]
            /\ Goto(t, "reg45")
    /\ UNCHANGED <<globals, srv, firstReg, fnVars>>

\* lines 41-42: os_dev_open and assert(dev != NULL).
RegOpen(t) ==
    /\ Running(t, "reg41")
    /\ IF os_dev_lookup(frame[t].ndev0) = NULL
       THEN /\ Abort(t, 42)
            /\ UNCHANGED <<devOwner, frame>>
       ELSE /\ os_dev_free
            /\ devOwner' = t
            /\ frame' = [frame EXCEPT ![t].dev = frame[t].ndev0,
                                      ![t].opens = @ + 1]
            /\ Goto(t, "reg45")
    /\ UNCHANGED <<globals, srv, firstReg, fnVars>>

\* lines 45-46: transport_id = oc_transport_register(&transport); the int8_t
\* result is stored in a uint8_t, then assert(transport_id >= 0).
RegRegister(t) ==
    /\ Running(t, "reg45")
    /\ \E r \in RegistryReturns :
        /\ transport_id' = U8(r)
        /\ frame' = [frame EXCEPT ![t].reg_rc = <<r>>]
        /\ IF U8(r) >= 0 THEN Goto(t, "reg49") ELSE Abort(t, 46)
    /\ UNCHANGED <<network_device, server, socket, srv, devOwner, firstReg, fnVars>>

\* lines 69-75: init_nrf24l01_endpoint on the endpoint of server object s.
init_nrf24l01_endpoint(s) ==
    [srv[s] EXCEPT !.oe_type = transport_id, !.oe_flags = 0]

\* lines 62-67: init_nrf24l01_server.
init_nrf24l01_server(s) ==
    [init_nrf24l01_endpoint(s) EXCEPT !.handle = s]

\* lines 49-50 (with 64 and 71): rc = init_nrf24l01_server(server0).
RegInitServer(t) ==
    /\ Running(t, "reg49")
    /\ IF transport_id >= 0
       THEN /\ srv' = [srv EXCEPT ![frame[t].server0] =
                            init_nrf24l01_server(frame[t].server0)]
            /\ Goto(t, "reg53")
       ELSE /\ Abort(t, 71)
            /\ UNCHANGED srv
    /\ UNCHANGED <<globals, devOwner, frame, firstReg, fnVars>>

\* line 53.
RegStoreDevice(t) ==
    /\ Running(t, "reg53")
    /\ network_device' = frame[t].ndev0
    /\ Goto(t, "reg54")
    /\ UNCHANGED <<server, socket, transport_id, srv, devOwner, frame, firstReg, fnVars>>

\* Line 54 followed by an assignment that sets up the socket.
RegStoreServer_OpensSocket(t) ==
    /\ Running(t, "reg54")
    /\ server' = frame[t].server0
    /\ socket' = "socket"
    /\ Goto(t, "reg57")
    /\ UNCHANGED <<network_device, transport_id, srv, devOwner, frame, firstReg, fnVars>>

\* line 54.
RegStoreServer(t) ==
    /\ Running(t, "reg54")
    /\ server' = frame[t].server0
    /\ Goto(t, "reg57")
    /\ UNCHANGED <<network_device, socket, transport_id, srv, devOwner, frame, firstReg, fnVars>>

\* The return of lines 57-59 with the os_dev_close left out.
RegClose_NoClose(t) ==
    /\ Running(t, "reg57")
    /\ frame' = [frame EXCEPT ![t].rc = 0]
    /\ firstReg' = IF firstReg = <<>>
                   THEN <<[device |-> frame[t].ndev0, server |-> frame[t].server0,
                           tag |-> U8(frame[t].reg_rc[1])]>>
                   ELSE firstReg
    /\ Goto(t, "ret")
    /\ UNCHANGED <<globals, srv, devOwner, fnVars>>

\* lines 57-59: os_dev_close, return 0.
RegClose(t) ==
    /\ Running(t, "reg57")
    /\ os_dev_close(t)
    /\ frame' = [frame EXCEPT ![t].closes = @ + 1, ![t].dev = NULL, ![t].rc = 0]
    /\ firstReg' = IF firstReg = <<>>
                   THEN <<[device |-> frame[t].ndev0, server |-> frame[t].server0,
                           tag |-> U8(frame[t].reg_rc[1])]>>
                   ELSE firstReg
    /\ Goto(t, "ret")
    /\ UNCHANGED <<globals, srv, fnVars>>

\* The caller gets control back.
Return(t) ==
    /\ Running(t, "ret")
    /\ frame' = [frame EXCEPT ![t] = EmptyFrame]
    /\ Goto(t, "idle")
    /\ UNCHANGED <<globals, srv, devOwner, firstReg, fnVars>>

\* -------------------------------------------------------- init_nrf24l01_*
\* lines 69-75 called directly by a task on a server object's endpoint.
InitEndpointCall(t, s) ==
    /\ Running(t, "idle")
    /\ frame' = [frame EXCEPT ![t] =
            [EmptyFrame EXCEPT !.op = "init_endpoint", !.server0 = s,
                               !.late = (firstReg # <<>>),
                               !.rc = IF transport_id >= 0 THEN 0 ELSE "none"]]
    /\ IF transport_id >= 0
       THEN /\ srv' = [srv EXCEPT ![s] = init_nrf24l01_endpoint(s)]
            /\ Goto(t, "ret")
       ELSE /\ Abort(t, 71)
            /\ UNCHANGED srv
    /\ UNCHANGED <<globals, devOwner, firstReg, fnVars>>

\* ------------------------------------------------------ nrf24l01_tx_mbuf
\* lines 80-85: the transmit is a TODO; rc is returned as initialised.
nrf24l01_tx_mbuf(dev, m) ==
    LET rc == 0 IN rc

\* os_mbuf_free_chain: frees every mbuf, returns 0.
os_mbuf_free_chain(m) == 0

\* ---------------------------------------------------------- oc_tx_ucast
\* lines 87-94: entry, the asserts on the chain and on its endpoint.
TxCall(t, m) ==
    /\ Running(t, "idle")
    /\ frame' = [frame EXCEPT ![t] =
            [EmptyFrame EXCEPT !.op = "tx_ucast", !.m = m,
                               !.late = (firstReg # <<>>)]]
    /\ IF m.null \/ ~m.usrhdr THEN Abort(t, 91)
       ELSE IF m.host = 0 \/ m.port = 0 THEN Abort(t, 94)
       ELSE Goto(t, "tx95")
    /\ UNCHANGED <<globals, srv, devOwner, firstReg, fnVars>>

\* line 95: assert(server), host and port equal to the server's.
TxCheckServer(t) ==
    /\ Running(t, "tx95")
    /\ IF /\ server # NULL
          /\ frame[t].m.host = serverHost(server)
          /\ frame[t].m.port = serverPort(server)
       THEN Goto(t, "tx96")
       ELSE Abort(t, 95)
    /\ UNCHANGED <<globals, srv, devOwner, frame, firstReg, fnVars>>

\* Line 96 without its assert(socket).
TxCheckDevice_NoSocket(t) ==
    /\ pc[t] = "tx96"
    /\ IF network_device # NULL
       THEN Goto(t, "tx100")
       ELSE Abort(t, 96)
    /\ UNCHANGED <<devOwner, frame>>

\* line 96: assert(network_device); assert(socket).
TxCheckDevice(t) ==
    /\ pc[t] = "tx96"
    /\ IF network_device # NULL /\ socket # NULL
       THEN Goto(t, "tx100")
       ELSE Abort(t, 96)
    /\ UNCHANGED <<devOwner, frame>>

\* lines 100-101: os_dev_open and assert(dev != NULL).
TxOpen(t) ==
    /\ pc[t] = "tx100"
    /\ IF os_dev_lookup(network_device) = NULL
       THEN /\ Abort(t, 101)
            /\ UNCHANGED <<devOwner, frame>>
       ELSE /\ os_dev_free
            /\ devOwner' = t
            /\ frame' = [frame EXCEPT ![t].dev = network_device,
                                      ![t].opens = @ + 1]
            /\ Goto(t, "tx105")

\* lines 105-106: rc = nrf24l01_tx_mbuf(dev, m); assert(rc > 0).
TxSend(t) ==
    /\ pc[t] = "tx105"
    /\ LET rc == nrf24l01_tx_mbuf(frame[t].dev, frame[t].m) IN
        /\ frame' = [frame EXCEPT ![t].rc = rc, ![t].sent = rc]
        /\ IF rc > 0 THEN Goto(t, "tx109") ELSE Abort(t, 106)
    /\ UNCHANGED devOwner

\* line 109: os_dev_close.
TxClose(t) ==
    /\ pc[t] = "tx109"
    /\ os_dev_close(t)
    /\ frame' = [frame EXCEPT ![t].closes = @ + 1, ![t].dev = NULL]
    /\ Goto(t, "tx113")

\* line 113: rc = os_mbuf_free_chain(m); assert(rc == 0); return.
TxFree(t) ==
    /\ pc[t] = "tx113"
    /\ LET rc == os_mbuf_free_chain(frame[t].m) IN
        /\ frame' = [frame EXCEPT ![t].rc = rc, ![t].frees = @ + 1]
        /\ IF rc = 0 THEN Goto(t, "ret") ELSE Abort(t, 113)
    /\ UNCHANGED devOwner

\* lines 96-113: the rest of oc_tx_ucast, one statement at a time.
TxBody(t) ==
    /\ aborted = 0
    /\ pc[t] \in {"tx96", "tx100", "tx105", "tx109", "tx113"}
    /\ (TxCheckDevice(t) \/ TxOpen(t) \/ TxSend(t) \/ TxClose(t) \/ TxFree(t))
    /\ UNCHANGED <<globals, srv, firstReg, fnVars>>

\* ------------------------------------------------- the other callbacks
SizeofEndpoint == "sizeof(struct nrf24l01_endpoint)"

\* A size that depends on the endpoint handed in.
oc_ep_size_ByEndpoint(oe) ==
    IF oe = "s1" THEN SizeofEndpoint ELSE "sizeof(struct oc_endpoint)"

\* lines 116-119.
oc_ep_size(oe) == SizeofEndpoint

\* lines 121-125.
oc_ep_has_conn(oe) == 0

\* lines 142-146.
oc_init == 0

\* A callback that reads no state and returns at once: its call and result.
Callback(t, name, result) ==
    /\ Running(t, "idle")
    /\ frame' = [frame EXCEPT ![t] =
            [EmptyFrame EXCEPT !.op = name, !.rc = result,
                               !.late = (firstReg # <<>>)]]
    /\ Goto(t, "ret")
    /\ UNCHANGED <<globals, srv, devOwner, firstReg, fnVars>>

EpSizeCall(t, s) == Callback(t, "ep_size", oc_ep_size(s))
EpHasConnCall(t, s) == Callback(t, "ep_has_conn", oc_ep_has_conn(s))
OcInitCall(t) == Callback(t, "init", oc_init)
\* lines 148-151.
OcShutdownCall(t) == Callback(t, "shutdown", "void")

\* ------------------------------------------------------------ oc_ep_str
\* "TODO:oc_ep_str" as bytes.
TodoStr == <<84, 79, 68, 79, 58, 111, 99, 95, 101, 112, 95, 115, 116, 114>>

\* strcpy(ptr, src): the bytes of src and its terminating NUL, by offset from ptr.
strcpy(src) ==
    [i \in 0..Len(src) |-> IF i < Len(src) THEN src[i + 1] ELSE 0]

\* Offsets written at or beyond the end of a buffer of maxlen bytes.
Overrun(f) == {i \in DOMAIN f.ptr : i >= f.maxlen}

\* lines 127-140: the copy ignores maxlen and oe.  A copy that runs past the
\* buffer has overwritten the caller's memory: the call may return or crash.
EpStrCall(t, maxlen, s) ==
    /\ Running(t, "idle")
    /\ LET f == [EmptyFrame EXCEPT !.op = "ep_str", !.maxlen = maxlen,
                                   !.ptr = strcpy(TodoStr),
                                   !.late = (firstReg # <<>>), !.rc = "ptr"]
       IN /\ frame' = [frame EXCEPT ![t] = f]
          /\ \/ Goto(t, "ret")
             \/ Overrun(f) # {} /\ Abort(t, 138)
    /\ UNCHANGED <<globals, srv, devOwner, firstReg, fnVars>>

\* --------------------------------------------------------------- system
\* Buffer sizes a caller passes to oc_ep_str: the smallest, one byte short of
\* the text and its NUL, an exact fit, and the largest.
BufLens == {1, Len(TodoStr), Len(TodoStr) + 1, MaxBufLen}

TxChains ==
    {NullChain} \cup {Chain(u, h, p, segs) : u \in BOOLEAN, h \in Hosts, p \in Ports,
                                        segs \in {<<HeaderLen, 20>>}}

Next ==
    \E t \in Tasks :
        \/ \E nd \in DeviceNames \cup {NULL}, s \in ServerIds \cup {NULL} :
                RegCall(t, nd, s)
        \/ RegOpen(t)
        \/ RegRegister(t)
        \/ RegInitServer(t)
        \/ RegStoreDevice(t)
        \/ RegStoreServer(t)
        \/ RegClose(t)
        \/ \E s \in ServerIds : InitEndpointCall(t, s)
        \/ \E m \in TxChains : TxCall(t, m)
        \/ TxCheckServer(t)
        \/ TxBody(t)
        \/ \E s \in ServerIds : EpSizeCall(t, s)
        \/ \E s \in ServerIds : EpHasConnCall(t, s)
        \/ OcInitCall(t)
        \/ OcShutdownCall(t)
        \/ \E n \in BufLens, s \in ServerIds : EpStrCall(t, n, s)
        \/ Return(t)

Spec == Init /\ [][Next]_vars

\* ------------------------------------ the frame transmit path on its own
\* Chains of a header segment and up to MaxSegs payload segments.
RECURSIVE SegSeqs(_)
SegSeqs(n) ==
    IF n = 0 THEN {<<>>}
    ELSE SegSeqs(n - 1) \cup
         {Append(q, l) : q \in {x \in SegSeqs(n - 1) : Len(x) = n - 1}, l \in SegLens}

FnChains ==
    {Chain(TRUE, serverHost("s1"), serverPort("s1"), <<HeaderLen>> \o q) :
        q \in SegSeqs(MaxSegs)}

InitTxMbuf ==
    /\ network_device = NULL
    /\ server = NULL
    /\ socket = NULL
    /\ transport_id = U8(-1)
    /\ srv = [s \in ServerIds |-> UnstampedServer]
    /\ devOwner = 0
    /\ pc = [t \in Tasks |-> "idle"]
    /\ frame = [t \in Tasks |-> EmptyFrame]
    /\ aborted = 0
    /\ firstReg = <<>>
    /\ fnChain \in FnChains
    /\ fnRc = <<>>

\* lines 80-85 applied to the chain.
TxMbufApply ==
    /\ fnRc = <<>>
    /\ fnRc' = <<nrf24l01_tx_mbuf("nrf24l01_0", fnChain)>>
    /\ UNCHANGED <<globals, srv, devOwner, pc, frame, aborted, firstReg, fnChain>>

NextTxMbuf == TxMbufApply

SpecTxMbuf == InitTxMbuf /\ [][NextTxMbuf]_vars

\* ================================================================ claims
\* A call that is over: it returned to its caller, or an assert halted it.
Ended(t) == pc[t] \in {"ret", "abort"}
TxEnded(t) == Ended(t) /\ frame[t].op = "tx_ucast"
RegEnded(t) == Ended(t) /\ frame[t].op = "register"
\* A chain oc_tx_ucast can read an endpoint from.
ValidChain(m) == ~m.null /\ m.usrhdr
\* The chain's endpoint is the stored server's.
ToPeer(m) ==
    /\ server # NULL
    /\ m.host = serverHost(server)
    /\ m.port = serverPort(server)
\* The tasks that have the device open.
Holders == {t \in Tasks : frame[t].dev # NULL}

C2_ChainFreedOnce ==
    \A t \in Tasks :
        (TxEnded(t) /\ ~frame[t].m.null) => frame[t].frees = 1

\* C3: a register call started after one register has succeeded does not
\* return success, and when it is back with its caller the stored device
\* name, server and transport id are still what the first call set.
C3_RegisterOnce ==
    \A t \in Tasks :
        (pc[t] = "ret" /\ frame[t].op = "register" /\ frame[t].late)
            => /\ frame[t].rc # 0
               /\ network_device = firstReg[1].device
               /\ server = firstReg[1].server
               /\ transport_id = firstReg[1].tag

\* C4: an oc_tx_ucast call whose endpoint (host and port set) differs from the
\* registered peer in host or port ends by handing a failure back to its
\* caller, and has opened no device.
C4_PeerMismatch ==
    \A t \in Tasks :
        (TxEnded(t) /\ frame[t].late /\ ValidChain(frame[t].m) /\ server # NULL
                    /\ frame[t].m.host # 0 /\ frame[t].m.port # 0
                    /\ ~ToPeer(frame[t].m))
            => pc[t] = "ret" /\ frame[t].opens = 0

\* C5: at most one call, transmit or register, has the device open.
C5_MutualExclusion == Cardinality(Holders) <= 1

\* A register call has the device open while another call waits in os_dev_open.
C5_Witness ==
    \E t, u \in Tasks :
        /\ t # u
        /\ frame[t].dev # NULL
        /\ pc[u] = "reg41"
        /\ os_dev_lookup(frame[u].ndev0) # NULL

\* The payload bytes of a chain: all segments but the header.
RECURSIVE SumSeq(_)
SumSeq(q) == IF q = <<>> THEN 0 ELSE Head(q) + SumSeq(Tail(q))
PayloadBytes(m) == SumSeq(Tail(m.segs))

\* C6: nrf24l01_tx_mbuf returns the total number of payload bytes of the chain
\* (20 for a header and one 20-byte payload).
C6_PayloadCount ==
    fnRc # <<>> => fnRc[1] = PayloadBytes(fnChain)

\* C7: no oc_tx_ucast call halts the system; a failing call returns.
C7_NoAbort ==
    \A t \in Tasks : frame[t].op = "tx_ucast" => pc[t] # "abort"

\* C8: a register call whose oc_transport_register was rejected (negative
\* result) goes no further: it stamps no endpoint, stores no device name or
\* server and does not return success.
C8_RegistrationFailed ==
    \A t \in Tasks :
        (frame[t].op = "register" /\ frame[t].reg_rc # <<>> /\ frame[t].reg_rc[1] < 0)
            => pc[t] \notin {"reg53", "reg54", "reg57", "ret"}

\* C9: oc_ep_str writes only inside the first maxlen bytes of the buffer, and
\* what it wrote has a NUL at an index below maxlen.
C9_NoOverrun ==
    \A t \in Tasks :
        frame[t].op = "ep_str"
            => /\ Overrun(frame[t]) = {}
               /\ \E i \in DOMAIN frame[t].ptr :
                    i < frame[t].maxlen /\ frame[t].ptr[i] = 0

C11_EndpointIdentity ==
    \A t \in Tasks :
        (pc[t] = "ret" /\ frame[t].op = "init_endpoint")
            => /\ frame[t].late
               /\ srv[frame[t].server0].oe_type = firstReg[1].tag
               /\ srv[frame[t].server0].oe_flags = 0

\* C12: once a register call has succeeded, no step of any operation changes
\* the stored device name, server or transport id.
C12_WriteOnce ==
    [][firstReg # <<>> =>
            /\ network_device' = network_device
            /\ server' = server
            /\ transport_id' = transport_id]_vars

\* C13: an oc_tx_ucast call made after a successful register, with a chain
\* addressed to the registered peer, reaches its end having opened the device,
\* sent, closed the device and freed the chain, once each; and in no state is
\* a chain freed by a call that still has the device open.
C13_OutboundFlow ==
    \A t \in Tasks :
        /\ (TxEnded(t) /\ frame[t].late /\ ValidChain(frame[t].m) /\ ToPeer(frame[t].m))
                => /\ pc[t] = "ret"
                   /\ frame[t].opens = 1
                   /\ frame[t].sent = PayloadBytes(frame[t].m)
                   /\ frame[t].closes = 1
                   /\ frame[t].frees = 1
        /\ (frame[t].op = "tx_ucast" /\ frame[t].dev # NULL) => frame[t].frees = 0

\* ------------------------------------------------------------- fairness
\* A step of a call that is under way: the scheduler lets every task run, and
\* the driver hands the device to a waiting os_dev_open once it is free.
\* Starting a call is the caller's choice and is under no fairness.
TaskStep(t) ==
    \/ RegOpen(t)
    \/ RegRegister(t)
    \/ RegInitServer(t)
    \/ RegStoreDevice(t)
    \/ RegStoreServer(t)
    \/ RegClose(t)
    \/ TxCheckServer(t)
    \/ TxBody(t)
    \/ Return(t)

FairSpec == Init /\ [][Next]_vars /\ \A t \in Tasks : WF_vars(TaskStep(t))

C15_EndpointSizeConstant ==
    [][\A t \in Tasks :
            (pc[t] = "idle" /\ frame'[t].op = "ep_size")
                => /\ pc'[t] = "ret"
                   /\ frame'[t].rc = SizeofEndpoint
                   /\ UNCHANGED <<globals, srv, devOwner>>]_vars

\* Two oc_ep_size calls have returned, one made before and one after a
\* registration that changed the statics.
C15_Witness ==
    \E t, u \in Tasks :
        /\ pc[t] = "ret" /\ frame[t].op = "ep_size" /\ ~frame[t].late
        /\ pc[u] = "ret" /\ frame[u].op = "ep_size" /\ frame[u].late
        /\ server # NULL
        /\ frame[t].rc = frame[u].rc

C18_TransmitBeforeRegister ==
    \A t \in Tasks :
        (frame[t].op = "tx_ucast" /\ ~frame[t].late)
            => /\ pc[t] # "ret"
               /\ frame[t].opens = 0
               /\ frame[t].dev = NULL
               /\ frame[t].sent = 0

\* An oc_tx_ucast call started before any register had returned found no
\* server stored and was halted at line 95 while a register call had the
\* device open.
C18_Witness ==
    \E t, u \in Tasks :
        /\ frame[t].op = "tx_ucast" /\ ~frame[t].late /\ pc[t] = "abort"
        /\ aborted = 95 /\ server = NULL
        /\ frame[u].op = "register" /\ frame[u].dev # NULL

\* C19: a register call naming a device that does not exist hands a failure
\* back without halting the system, so that a later register can succeed, and
\* it has not asked oc_transport_register for a transport id.
C19_DeviceNotFound ==
    \A t \in Tasks :
        (frame[t].op = "register" /\ frame[t].ndev0 # NULL /\ frame[t].server0 # NULL
                /\ os_dev_lookup(frame[t].ndev0) = NULL /\ Ended(t))
            => /\ pc[t] = "ret"
               /\ aborted = 0
               /\ frame[t].reg_rc = <<>>
====
